---------------------------- MODULE Spec2Model ----------------------------
(***************************************************************************)
(* hk-coordinate-converter: the coordinate-string parser, the grid         *)
(* reference normalizer and the conversion gateway with its response       *)
(* cache (src/app.py, src/hk_grid_converter.py).                           *)
(*                                                                         *)
(* Strings are sequences of one-character strings.  Python floats are      *)
(* modelled as exact reduced rationals [n, d]; binary rounding is not      *)
(* modelled.  The alphabet Chars holds no newline, no '+', no '_' and none *)
(* of the letters of "inf"/"nan" other than N, so float() is modelled on   *)
(* the decimal grammar with an optional exponent.                          *)
(***************************************************************************)
EXTENDS Integers, Sequences, FiniteSets, TLC

(***************************************************************************)
(* Characters                                                              *)
(***************************************************************************)
TAB == "\t"
DEG == "deg"          \* U+00B0 DEGREE SIGN
APOS == "'"
QUOTE == "\""
PRIME == "prime"      \* U+2032 PRIME
DPRIME == "dprime"    \* U+2033 DOUBLE PRIME

DigitSeq == <<"0", "1", "2", "3", "4", "5", "6", "7", "8", "9">>
Digit == {DigitSeq[i] : i \in 1..10}
LowerSeq == <<"e", "g", "h", "j", "k", "n", "s", "w", "x">>
UpperSeq == <<"E", "G", "H", "J", "K", "N", "S", "W", "X">>
WhiteSpace == {" ", TAB}
Chars == Digit \cup {LowerSeq[i] : i \in 1..Len(LowerSeq)}
               \cup {UpperSeq[i] : i \in 1..Len(UpperSeq)}
               \cup WhiteSpace
               \cup {",", ";", ".", "-", DEG, APOS, QUOTE, PRIME, DPRIME}

(***************************************************************************)
(* Python str methods                                                      *)
(***************************************************************************)
UpperChar(c) ==
  IF \E i \in 1..Len(LowerSeq) : LowerSeq[i] = c
  THEN UpperSeq[CHOOSE i \in 1..Len(LowerSeq) : LowerSeq[i] = c]
  ELSE c

\* str.upper()
Upper(s) == [i \in 1..Len(s) |-> UpperChar(s[i])]

\* str.strip(): leading and trailing whitespace removed
Strip(s) ==
  LET nonws == {i \in 1..Len(s) : s[i] \notin WhiteSpace}
  IN IF nonws = {} THEN <<>>
     ELSE LET lo == CHOOSE i \in nonws : \A j \in nonws : i <= j
              hi == CHOOSE i \in nonws : \A j \in nonws : j <= i
          IN SubSeq(s, lo, hi)

\* the sub-sequence of s without the characters of the set cs:
\* str.replace(c, "") for every c in cs
RECURSIVE Remove(_, _)
Remove(s, cs) ==
  IF s = <<>> THEN <<>>
  ELSE IF Head(s) \in cs THEN Remove(Tail(s), cs)
       ELSE <<Head(s)>> \o Remove(Tail(s), cs)

\* str.replace(c, " ") for every c in cs
Blank(s, cs) == [i \in 1..Len(s) |-> IF s[i] \in cs THEN " " ELSE s[i]]

\* c in s
Contains(s, c) == \E i \in 1..Len(s) : s[i] = c

\* re.split on a one-character class / str.split(): the pieces of s between
\* the characters of seps (empty pieces kept iff keepEmpty)
RECURSIVE SplitAcc(_, _, _, _)
SplitAcc(s, seps, cur, keepEmpty) ==
  IF s = <<>> THEN (IF cur = <<>> /\ ~keepEmpty THEN <<>> ELSE <<cur>>)
  ELSE IF Head(s) \in seps
       THEN (IF cur = <<>> /\ ~keepEmpty THEN <<>> ELSE <<cur>>)
            \o SplitAcc(Tail(s), seps, <<>>, keepEmpty)
       ELSE SplitAcc(Tail(s), seps, cur \o <<Head(s)>>, keepEmpty)

\* re.split(r'[,;]', text)
ReSplit(s, seps) == SplitAcc(s, seps, <<>>, TRUE)
\* str.split()
SplitWS(s) == SplitAcc(s, WhiteSpace, <<>>, FALSE)

(***************************************************************************)
(* Exact rationals standing for Python floats                              *)
(***************************************************************************)
Abs(x) == IF x < 0 THEN -x ELSE x

RECURSIVE Gcd(_, _)
Gcd(a, b) == IF b = 0 THEN a ELSE Gcd(b, a % b)

Rat(n, d) ==
  LET g == Gcd(Abs(n), d)
  IN [n |-> n \div g, d |-> d \div g]

RInt(k) == [n |-> k, d |-> 1]
RNeg(a) == [n |-> -a.n, d |-> a.d]
RAdd(a, b) ==
  LET l == (a.d \div Gcd(a.d, b.d)) * b.d
  IN Rat(a.n * (l \div a.d) + b.n * (l \div b.d), l)
RDivInt(a, k) ==
  LET g == Gcd(Abs(a.n), k)
  IN Rat(a.n \div g, a.d * (k \div g))
RLe(a, b) == a.n * b.d <= b.n * a.d

RECURSIVE Pow10(_)
Pow10(k) == IF k = 0 THEN 1 ELSE 10 * Pow10(k - 1)

DigitVal(c) == (CHOOSE i \in 1..10 : DigitSeq[i] = c) - 1

RECURSIVE DigitsToNat(_)
DigitsToNat(ds) ==
  IF ds = <<>> THEN 0
  ELSE 10 * DigitsToNat(SubSeq(ds, 1, Len(ds) - 1)) + DigitVal(ds[Len(ds)])

(***************************************************************************)
(* Backtracking regular-expression matcher (the semantics of Python's re   *)
(* for the constructs the source uses).  A pattern is a sequence of        *)
(* instructions:                                                           *)
(*   rep  : a character class repeated lo..hi times, greedy or lazy        *)
(*   save : a capture-group boundary (slot 2k-1 opens group k, 2k closes)  *)
(*   opt  : a greedy optional group (...)? made of the next `to`           *)
(*          instructions                                                   *)
(*   alt  : an alternation of literal strings, tried in order              *)
(*   bol, eol : ^ and $                                                    *)
(***************************************************************************)
Unbounded == 0 - 1
NoClass == {}

CRep(cls, lo, hi) == [op |-> "rep", cls |-> cls, lo |-> lo, hi |-> hi, greedy |-> TRUE, g |-> 0, to |-> 0, lits |-> <<>>]
CLazy(cls, lo, hi) == [op |-> "rep", cls |-> cls, lo |-> lo, hi |-> hi, greedy |-> FALSE, g |-> 0, to |-> 0, lits |-> <<>>]
COne(cls) == CRep(cls, 1, 1)
CStar(cls) == CRep(cls, 0, Unbounded)
CPlus(cls) == CRep(cls, 1, Unbounded)
CMaybe(cls) == CRep(cls, 0, 1)
CSave(g) == [op |-> "save", cls |-> NoClass, lo |-> 0, hi |-> 0, greedy |-> TRUE, g |-> g, to |-> 0, lits |-> <<>>]
COpt(to) == [op |-> "opt", cls |-> NoClass, lo |-> 0, hi |-> 0, greedy |-> TRUE, g |-> 0, to |-> to, lits |-> <<>>]
CAlt(lits) == [op |-> "alt", cls |-> NoClass, lo |-> 0, hi |-> 0, greedy |-> TRUE, g |-> 0, to |-> 0, lits |-> lits]
CBol == [op |-> "bol", cls |-> NoClass, lo |-> 0, hi |-> 0, greedy |-> TRUE, g |-> 0, to |-> 0, lits |-> <<>>]
CEol == [op |-> "eol", cls |-> NoClass, lo |-> 0, hi |-> 0, greedy |-> TRUE, g |-> 0, to |-> 0, lits |-> <<>>]

NoMatch == [ok |-> FALSE, start |-> 0, end |-> 0, caps |-> <<>>]

\* how many consecutive characters of s from position i lie in cls, at most hi
RECURSIVE CountRun(_, _, _, _)
CountRun(s, i, cls, hi) ==
  IF hi = 0 \/ i > Len(s) \/ s[i] \notin cls THEN 0
  ELSE 1 + CountRun(s, i + 1, cls, hi - 1)

RECURSIVE Run(_, _, _, _, _)
RECURSIVE TryGreedy(_, _, _, _, _, _, _)
RECURSIVE TryLazy(_, _, _, _, _, _, _)
RECURSIVE TryAlt(_, _, _, _, _, _)

\* whether the literal lit stands in s at position i
LitAt(s, i, lit) ==
  /\ i + Len(lit) - 1 <= Len(s)
  /\ \A k \in 1..Len(lit) : s[i + k - 1] = lit[k]

TryAlt(prog, pc, s, i, caps, k) ==
  IF k > Len(prog[pc].lits) THEN NoMatch
  ELSE LET lit == prog[pc].lits[k]
           r == IF LitAt(s, i, lit) THEN Run(prog, pc + 1, s, i + Len(lit), caps) ELSE NoMatch
       IN IF r.ok THEN r ELSE TryAlt(prog, pc, s, i, caps, k + 1)

TryGreedy(prog, pc, s, i, caps, k, lo) ==
  IF k < lo THEN NoMatch
  ELSE LET r == Run(prog, pc + 1, s, i + k, caps)
       IN IF r.ok THEN r ELSE TryGreedy(prog, pc, s, i, caps, k - 1, lo)

TryLazy(prog, pc, s, i, caps, k, n) ==
  IF k > n THEN NoMatch
  ELSE LET r == Run(prog, pc + 1, s, i + k, caps)
       IN IF r.ok THEN r ELSE TryLazy(prog, pc, s, i, caps, k + 1, n)

Run(prog, pc, s, i, caps) ==
  IF pc > Len(prog) THEN [ok |-> TRUE, start |-> 0, end |-> i, caps |-> caps]
  ELSE LET ins == prog[pc] IN
    CASE ins.op = "rep" ->
           LET n == CountRun(s, i, ins.cls, ins.hi)
           IN IF ins.greedy THEN TryGreedy(prog, pc, s, i, caps, n, ins.lo)
              ELSE TryLazy(prog, pc, s, i, caps, ins.lo, n)
      [] ins.op = "save" ->
           Run(prog, pc + 1, s, i, [caps EXCEPT ![ins.g] = i])
      [] ins.op = "opt" ->
           LET r == Run(prog, pc + 1, s, i, caps)
           IN IF r.ok THEN r ELSE Run(prog, pc + 1 + ins.to, s, i, caps)
      [] ins.op = "alt" ->
           TryAlt(prog, pc, s, i, caps, 1)
      [] ins.op = "bol" ->
           IF i = 1 THEN Run(prog, pc + 1, s, i, caps) ELSE NoMatch
      [] ins.op = "eol" ->
           IF i = Len(s) + 1 THEN Run(prog, pc + 1, s, i, caps) ELSE NoMatch

NoCaps(prog) == [k \in 1..Len(prog) |-> 0]

\* pattern.match(s): a match starting at the first character
ReMatch(prog, s) ==
  LET r == Run(prog, 1, s, 1, NoCaps(prog))
  IN IF r.ok THEN [r EXCEPT !.start = 1] ELSE NoMatch

\* pattern.search(s): the match at the leftmost position that has one
RECURSIVE SearchFrom(_, _, _)
SearchFrom(prog, s, p) ==
  IF p > Len(s) + 1 THEN NoMatch
  ELSE LET r == Run(prog, 1, s, p, NoCaps(prog))
       IN IF r.ok THEN [r EXCEPT !.start = p] ELSE SearchFrom(prog, s, p + 1)

ReSearch(prog, s) == SearchFrom(prog, s, 1)

\* match.group(k) is not None
HasGroup(m, k) == m.caps[2 * k - 1] > 0 /\ m.caps[2 * k] > 0
\* match.group(k), for a group that took part in the match
Group(m, s, k) == SubSeq(s, m.caps[2 * k - 1], m.caps[2 * k] - 1)

(***************************************************************************)
(* float(token), on the alphabet Chars:                                    *)
(*   -? ( digits [. digits*] | . digits ) [ E -? digits ]                  *)
(***************************************************************************)
FloatPattern ==
  << CBol, CSave(1), CMaybe({"-"}), CSave(2),
     CSave(3), CStar(Digit), CSave(4),
     COpt(4), COne({"."}), CSave(5), CStar(Digit), CSave(6),
     COpt(7), COne({"E"}), CSave(7), CMaybe({"-"}), CSave(8),
               CSave(9), CPlus(Digit), CSave(10),
     CEol >>

PyFloat(tok) ==
  LET m == ReMatch(FloatPattern, tok)
      ip == Group(m, tok, 2)
      fp == IF HasGroup(m, 3) THEN Group(m, tok, 3) ELSE <<>>
      mant == DigitsToNat(ip \o fp)
      ex == IF HasGroup(m, 5)
            THEN (IF Group(m, tok, 4) = <<"-">> THEN -1 ELSE 1) * DigitsToNat(Group(m, tok, 5))
            ELSE 0
      sh == ex - Len(fp)
      mag == IF sh >= 0 THEN RInt(mant * Pow10(sh)) ELSE Rat(mant, Pow10(-sh))
  IN IF m.ok /\ Len(ip) + Len(fp) > 0
     THEN [exc |-> "none", val |-> IF Group(m, tok, 1) = <<"-">> THEN RNeg(mag) ELSE mag]
     ELSE [exc |-> "ValueError", val |-> RInt(0)]

(***************************************************************************)
(* Results of the operations.  kind: "none" (the function returned None),  *)
(* "point" (a (lat, lon) pair), "grid" (a grid string), "raise" (an        *)
(* exception left the function), "pair" (the (value, error) pair of a      *)
(* gateway operation).  msgs: the st.warning / st.error calls.             *)
(* path: the return statement taken.                                       *)
(***************************************************************************)
NoneTok == <<>>
NoHem == "none"
RZero == RInt(0)
JNull == "null"       \* Python None, JSON null
Absent == "absent"    \* a key a dict does not hold

\* value / error: the (value, error) pair of a gateway operation, JNull for None
Res(kind, lat, lon, grid, msgs, path, exc, value, error) ==
  [kind |-> kind, lat |-> lat, lon |-> lon, grid |-> grid, msgs |-> msgs, path |-> path,
   exc |-> exc, value |-> value, error |-> error]
ResNone(msgs, path) == Res("none", RZero, RZero, <<>>, msgs, path, "none", <<>>, JNull)
ResPoint(lat, lon, msgs, path) == Res("point", lat, lon, <<>>, msgs, path, "none", <<>>, JNull)
ResGrid(g, path) == Res("grid", RZero, RZero, g, <<>>, path, "none", <<>>, JNull)
ResRaise(exc, path) == Res("raise", RZero, RZero, <<>>, <<>>, path, exc, <<>>, JNull)
ResPair(value, error, path) == Res("pair", RZero, RZero, <<>>, <<>>, path, "none", value, error)

(***************************************************************************)
(* app.py: Hong Kong bounds                                                *)
(***************************************************************************)
HK_LAT_MIN == Rat(2215, 100)
HK_LAT_MAX == Rat(2260, 100)
HK_LON_MIN == Rat(11380, 100)
HK_LON_MAX == Rat(11445, 100)

\* -90 <= lat <= 90 and -180 <= lon <= 180
InRange(lat, lon) ==
  /\ RLe(RInt(-90), lat) /\ RLe(lat, RInt(90))
  /\ RLe(RInt(-180), lon) /\ RLe(lon, RInt(180))

\* HK_LAT_MIN <= lat <= HK_LAT_MAX and HK_LON_MIN <= lon <= HK_LON_MAX
InHongKong(lat, lon) ==
  /\ RLe(HK_LAT_MIN, lat) /\ RLe(lat, HK_LAT_MAX)
  /\ RLe(HK_LON_MIN, lon) /\ RLe(lon, HK_LON_MAX)

\* a point outside the Hong Kong box is warned about and not returned
ValidateOutsideFails(lat, lon, path) ==
  IF InRange(lat, lon)
  THEN IF InHongKong(lat, lon)
       THEN ResPoint(lat, lon, <<>>, path)
       ELSE ResNone(<<"warning">>, path)
  ELSE ResNone(<<"error">>, path)

\* the validation block that ends each of the three parsing paths
Validate(lat, lon, path) ==
  IF InRange(lat, lon)
  THEN IF InHongKong(lat, lon)
       THEN ResPoint(lat, lon, <<>>, path)
       ELSE ResPoint(lat, lon, <<"warning">>, path)
  ELSE ResNone(<<"error">>, path)

(***************************************************************************)
(* app.py: enhanced_coordinate_parser                                      *)
(***************************************************************************)
\* deg + mnt / 60.0 + sec / 3600.0
DmsSum(d, m, s) == RAdd(RAdd(d, RDivInt(m, 60)), RDivInt(s, 3600))

\* the nested helper to_decimal(deg, mnt=0, sec=0, hem=None): [none, val]
ToDecimalApp(deg, mnt, sec, hem) ==
  LET d == IF deg = NoneTok THEN [exc |-> "TypeError", val |-> RZero] ELSE PyFloat(deg)
      m == IF mnt # NoneTok THEN PyFloat(mnt) ELSE [exc |-> "none", val |-> RZero]
      s == IF sec # NoneTok THEN PyFloat(sec) ELSE [exc |-> "none", val |-> RZero]
      exc == IF d.exc # "none" THEN d.exc
             ELSE IF m.exc # "none" THEN m.exc ELSE s.exc
      dec == DmsSum(d.val, m.val, s.val)
  IN IF exc \in {"ValueError", "TypeError"}
     THEN [none |-> TRUE, val |-> RZero]
     ELSE [none |-> FALSE, val |-> IF hem \in {"S", "W"} THEN RNeg(dec) ELSE dec]

\* r'([NS].*?)\s*([EW].*)'
HemSplitPattern ==
  << CSave(1), COne({"N", "S"}), CLazy(Chars, 0, Unbounded), CSave(2),
     CStar(WhiteSpace),
     CSave(3), COne({"E", "W"}), CStar(Chars), CSave(4) >>

\* the split of text into parts
SplitParts(text) ==
  LET parts == ReSplit(text, {",", ";"})
  IN IF Len(parts) # 2 /\ Contains(text, "N") /\ (Contains(text, "E") \/ Contains(text, "W"))
     THEN LET m == ReSearch(HemSplitPattern, text)
          IN IF m.ok THEN <<Group(m, text, 1), Group(m, text, 2)>> ELSE parts
     ELSE parts

\* the hemisphere indicator of a part
HemOf(part, first, second) ==
  IF Contains(part, first) THEN first
  ELSE IF Contains(part, second) THEN second ELSE NoHem

\* the components of a part: hemisphere letters removed, symbols blanked, split
Components(part, letters) ==
  SplitWS(Blank(Strip(Remove(Strip(part), letters)), {DEG, APOS, QUOTE}))

Tok(comps, k) == IF Len(comps) >= k THEN comps[k] ELSE NoneTok

\* the first parsing path: [returned, res]
FlexibleParse(text) ==
  LET parts == SplitParts(text)
  IN IF Len(parts) # 2 THEN [returned |-> FALSE, res |-> ResNone(<<>>, "flex")]
     ELSE
       LET lat_hem == HemOf(Strip(parts[1]), "N", "S")
           lon_hem == HemOf(Strip(parts[2]), "E", "W")
           lat_components == Components(parts[1], {"N", "S"})
           lon_components == Components(parts[2], {"E", "W"})
           lat == ToDecimalApp(Tok(lat_components, 1), Tok(lat_components, 2),
                               Tok(lat_components, 3), lat_hem)
           lon == ToDecimalApp(Tok(lon_components, 1), Tok(lon_components, 2),
                               Tok(lon_components, 3), lon_hem)
       IN IF ~lat.none /\ ~lon.none
          THEN [returned |-> TRUE, res |-> Validate(lat.val, lon.val, "flex")]
          ELSE [returned |-> FALSE, res |-> ResNone(<<>>, "flex")]

\* r"(-?\d+\.\d+)\s*[,;]\s*(-?\d+\.\d+)"
AppPatternDD ==
  << CSave(1), CMaybe({"-"}), CPlus(Digit), COne({"."}), CPlus(Digit), CSave(2),
     CStar(WhiteSpace), COne({",", ";"}), CStar(WhiteSpace),
     CSave(3), CMaybe({"-"}), CPlus(Digit), COne({"."}), CPlus(Digit), CSave(4) >>

\* the second parsing path: [returned, res]
DecimalParse(text) ==
  LET m == ReSearch(AppPatternDD, text)
  IN IF ~m.ok THEN [returned |-> FALSE, res |-> ResNone(<<>>, "dd")]
     ELSE LET lat == PyFloat(Group(m, text, 1))
              lon == PyFloat(Group(m, text, 2))
          IN IF lat.exc \in {"ValueError", "TypeError"} \/ lon.exc \in {"ValueError", "TypeError"}
             THEN [returned |-> FALSE, res |-> ResNone(<<>>, "dd")]
             ELSE [returned |-> TRUE, res |-> Validate(lat.val, lon.val, "dd")]

(***************************************************************************)
(* hk_grid_converter.py: parse_any_coordinate_format                       *)
(***************************************************************************)
\* the nested helper to_decimal(deg, mnt, sec, hem): [exc, val]
ToDecimalConv(deg, mnt, sec, hem) ==
  LET d == PyFloat(deg)
      m == PyFloat(mnt)
      s == IF sec # NoneTok THEN PyFloat(sec) ELSE [exc |-> "none", val |-> RZero]
      exc == IF d.exc # "none" THEN d.exc
             ELSE IF m.exc # "none" THEN m.exc ELSE s.exc
      dec == DmsSum(d.val, m.val, s.val)
  IN [exc |-> exc, val |-> IF hem \in {"S", "W"} THEN RNeg(dec) ELSE dec]

\* one half of pattern_dms_dm, its three number groups numbered from g, with
\* maxDeg digits of degrees:
\*   (\d{1,n})[\s°]*(\d{1,2}(?:\.\d+)?)\s*['′]?\s*(?:(\d{1,2}(?:\.\d+)?)\s*[\"″]\s*)?
DmsHalf(g, maxDeg) ==
  << CSave(2 * g - 1), CRep(Digit, 1, maxDeg), CSave(2 * g),
     CStar(WhiteSpace \cup {DEG}),
     CSave(2 * g + 1), CRep(Digit, 1, 2), COpt(2), COne({"."}), CPlus(Digit), CSave(2 * g + 2),
     CStar(WhiteSpace), CMaybe({APOS, PRIME}), CStar(WhiteSpace),
     COpt(9), CSave(2 * g + 3), CRep(Digit, 1, 2), COpt(2), COne({"."}), CPlus(Digit),
              CSave(2 * g + 4), CStar(WhiteSpace), COne({QUOTE, DPRIME}), CStar(WhiteSpace) >>

\* pattern_dms_dm
PatternDmsDm ==
  DmsHalf(1, 2) \o << CSave(7), COne({"N", "S"}), CSave(8), CStar(WhiteSpace \cup {",", ";"}) >>
  \o DmsHalf(5, 3) \o << CSave(15), COne({"E", "W"}), CSave(16) >>

\* pattern_dd: r"^(-?\d+\.?\d*)\s*[,;\s]\s*(-?\d+\.?\d*)$"
ConvPatternDD ==
  << CBol, CSave(1), CMaybe({"-"}), CPlus(Digit), CMaybe({"."}), CStar(Digit), CSave(2),
     CStar(WhiteSpace), COne(WhiteSpace \cup {",", ";"}), CStar(WhiteSpace),
     CSave(3), CMaybe({"-"}), CPlus(Digit), CMaybe({"."}), CStar(Digit), CSave(4), CEol >>

GroupOrNone(m, s, k) == IF HasGroup(m, k) THEN Group(m, s, k) ELSE NoneTok

\* pattern 2 of parse_any_coordinate_format: [none, lat, lon]
ConvDecimal(text) ==
  LET m == ReMatch(ConvPatternDD, text)
  IN IF ~m.ok THEN [none |-> TRUE, lat |-> RZero, lon |-> RZero]
     ELSE LET lat == PyFloat(Group(m, text, 1))
              lon == PyFloat(Group(m, text, 2))
          IN IF lat.exc = "none" /\ lon.exc = "none" /\ InRange(lat.val, lon.val)
             THEN [none |-> FALSE, lat |-> lat.val, lon |-> lon.val]
             ELSE [none |-> TRUE, lat |-> RZero, lon |-> RZero]

\* parse_any_coordinate_format(coord_str): [none, lat, lon]
ParseAnyCoordinateFormat(coord_str) ==
  LET text == Upper(Strip(coord_str))
      m == ReSearch(PatternDmsDm, text)
  IN IF m.ok
     THEN LET lat == ToDecimalConv(Group(m, text, 1), Group(m, text, 2),
                                   GroupOrNone(m, text, 3), Group(m, text, 4)[1])
              lon == ToDecimalConv(Group(m, text, 5), Group(m, text, 6),
                                   GroupOrNone(m, text, 7), Group(m, text, 8)[1])
          IN IF lat.exc \in {"ValueError", "TypeError"} \/ lon.exc \in {"ValueError", "TypeError"}
             THEN ConvDecimal(text)
             ELSE [none |-> FALSE, lat |-> lat.val, lon |-> lon.val]
     ELSE ConvDecimal(text)

\* the third parsing path of enhanced_coordinate_parser: [returned, res]
FallbackParse(coord_str) ==
  LET coords == ParseAnyCoordinateFormat(coord_str)
  IN IF coords.none THEN [returned |-> FALSE, res |-> ResNone(<<>>, "fallback")]
     ELSE [returned |-> TRUE, res |-> Validate(coords.lat, coords.lon, "fallback")]

\* enhanced_coordinate_parser(coord_str, converter)
EnhancedCoordinateParser(coord_str) ==
  IF coord_str = <<>> THEN ResNone(<<>>, "empty")
  ELSE LET text == Upper(Strip(coord_str))
           flex == FlexibleParse(text)
           dd == DecimalParse(text)
           fb == FallbackParse(coord_str)
       IN IF flex.returned THEN flex.res
          ELSE IF dd.returned THEN dd.res
          ELSE IF fb.returned THEN fb.res
          ELSE ResNone(<<>>, "end")

(***************************************************************************)
(* app.py: parse_hk_grid                                                   *)
(***************************************************************************)
\* r'^(GE|HE|JK|KK)(\d+)$'
GridPattern ==
  << CBol, CSave(1), CAlt(<< <<"G", "E">>, <<"H", "E">>, <<"J", "K">>, <<"K", "K">> >>), CSave(2),
     CSave(3), CPlus(Digit), CSave(4), CEol >>

\* grid_str.strip().upper().replace(" ", "")
CleanGrid(grid_str) == Remove(Upper(Strip(grid_str)), {" "})

\* parse_hk_grid(grid_str)
ParseHkGridNoMatchCheck(grid_str) ==
  IF grid_str = <<>> THEN ResNone(<<>>, "empty")
  ELSE LET clean_str == CleanGrid(grid_str)
           m == ReMatch(GridPattern, clean_str)
       IN IF ~m.ok THEN ResRaise("AttributeError", "groups")
          ELSE IF Len(Group(m, clean_str, 2)) % 2 # 0 THEN ResNone(<<>>, "odd")
          ELSE ResGrid(Group(m, clean_str, 1) \o Group(m, clean_str, 2), "match")

ParseHkGrid(grid_str) ==
  IF grid_str = <<>> THEN ResNone(<<>>, "empty")
  ELSE LET clean_str == CleanGrid(grid_str)
           m == ReMatch(GridPattern, clean_str)
       IN IF m.ok
          THEN IF Len(Group(m, clean_str, 2)) % 2 # 0 THEN ResNone(<<>>, "odd")
               ELSE ResGrid(Group(m, clean_str, 1) \o Group(m, clean_str, 2), "match")
          ELSE ResNone(<<>>, "nomatch")

(***************************************************************************)
(* hk_grid_converter.py: the gateway.  A JSON body is [t, f, req]: t is    *)
(* "dict", "list" or "null", f maps every key of JsonKeys to its value     *)
(* (Absent when the dict lacks it), req is the request the body answers    *)
(* (not read by the code).  A reply of the remote service is [kind, data]: *)
(* kind "json" (a body that parses), "connection_error", "timeout",        *)
(* "http_error", or "not_json" with the class of the exception that        *)
(* response.json() raises in the installed version of requests.            *)
(***************************************************************************)
JsonKeys == {"ErrorCode", "ErrorMsg", "wgsLat", "wgsLong", "utmRefZone", "utmRefE", "utmRefN"}

Dict(f, req) ==
  [t |-> "dict", f |-> [k \in JsonKeys |-> IF k \in DOMAIN f THEN f[k] ELSE Absent], req |-> req]
NoData == [t |-> "null", f |-> [k \in JsonKeys |-> Absent], req |-> <<>>]

\* "ErrorCode" in data
HasKey(data, k) == data.f[k] # Absent
\* data.get(k, default), data.get(k)
Get(data, k, default) == IF data.f[k] = Absent THEN default ELSE data.f[k]
GetOrNone(data, k) == Get(data, k, JNull)

\* json.dumps(params, sort_keys=True): the pairs of params ordered by key
SortedKeys == <<"e", "inSys", "lat", "long", "n", "outSys", "zone">>
KeyRank(k) == CHOOSE i \in 1..Len(SortedKeys) : SortedKeys[i] = k
CacheKey(params) ==
  LET pairs == {params[i] : i \in 1..Len(params)}
  IN [i \in 1..Len(params) |->
        CHOOSE q \in pairs :
          Cardinality({r \in pairs : KeyRank(r[1]) < KeyRank(q[1])}) = i - 1]

\* the except clause that handles exception class c raised in the try block
\* of _call_api, "none" when it propagates
Handler(c) ==
  IF c \in {"ConnectionError", "Timeout", "HTTPError", "requests.JSONDecodeError"}
  THEN "RequestException"
  ELSE IF c = "json.JSONDecodeError" THEN "JSONDecodeError" ELSE "none"

ErrorData(code, msg, req) == Dict([ErrorCode |-> code, ErrorMsg |-> msg], req)

\* _call_api without the lookup at lines 20-21: every call goes to the network
CallApiNoLookup(c, params, reply) ==
  LET cache_key == CacheKey(params)
      body == [reply.data EXCEPT !.req = cache_key]
      stored == [k \in DOMAIN c \cup {cache_key} |-> IF k = cache_key THEN body ELSE c[k]]
  IN IF reply.kind = "json" /\ reply.data.t # "null"
     THEN [exc |-> "none", data |-> body,
           cache |-> IF HasKey(body, "ErrorCode") THEN c ELSE stored, sent |-> TRUE]
     ELSE IF reply.kind = "json"
     THEN [exc |-> "TypeError", data |-> NoData, cache |-> c, sent |-> TRUE]
     ELSE [exc |-> "none", data |-> ErrorData("Network Error", "str(e)", cache_key),
           cache |-> c, sent |-> TRUE]

\* _call_api without the check at line 26: every body that parses is stored
CallApiStoreAll(c, params, reply) ==
  LET cache_key == CacheKey(params)
      body == [reply.data EXCEPT !.req = cache_key]
      stored == [k \in DOMAIN c \cup {cache_key} |-> IF k = cache_key THEN body ELSE c[k]]
  IN IF cache_key \in DOMAIN c
     THEN [exc |-> "none", data |-> c[cache_key], cache |-> c, sent |-> FALSE]
     ELSE IF reply.kind = "json" /\ reply.data.t # "null"
     THEN [exc |-> "none", data |-> body, cache |-> stored, sent |-> TRUE]
     ELSE IF reply.kind = "json"
     THEN [exc |-> "TypeError", data |-> NoData, cache |-> c, sent |-> TRUE]
     ELSE [exc |-> "none", data |-> ErrorData("Network Error", "str(e)", cache_key),
           cache |-> c, sent |-> TRUE]

\* _call_api(params) with the cache c and the service answering reply:
\* [exc, data, cache, sent]
CallApi(c, params, reply) ==
  LET cache_key == CacheKey(params)
      body == [reply.data EXCEPT !.req = cache_key]
      raised == CASE reply.kind = "connection_error" -> "ConnectionError"
                  [] reply.kind = "timeout" -> "Timeout"
                  [] reply.kind = "http_error" -> "HTTPError"
                  [] reply.kind = "not_json" -> reply.cls
                  [] reply.data.t = "null" -> "TypeError"
                  [] OTHER -> "none"
  IN IF cache_key \in DOMAIN c
     THEN [exc |-> "none", data |-> c[cache_key], cache |-> c, sent |-> FALSE]
     ELSE IF raised = "none"
     THEN [exc |-> "none", data |-> body,
           cache |-> IF ~HasKey(body, "ErrorCode")
                     THEN [k \in DOMAIN c \cup {cache_key} |->
                             IF k = cache_key THEN body ELSE c[k]]
                     ELSE c,
           sent |-> TRUE]
     ELSE IF Handler(raised) = "RequestException"
     THEN [exc |-> "none", data |-> ErrorData("Network Error", "str(e)", cache_key),
           cache |-> c, sent |-> TRUE]
     ELSE IF Handler(raised) = "JSONDecodeError"
     THEN [exc |-> "none",
           data |-> ErrorData("Invalid Response", "Could not parse JSON from API.", cache_key),
           cache |-> c, sent |-> TRUE]
     ELSE [exc |-> raised, data |-> NoData, cache |-> c, sent |-> TRUE]

UTMREF == <<"u", "t", "m", "r", "e", "f">>
WGSGEOG == <<"w", "g", "s", "g", "e", "o", "g">>

\* the zone without the test on square_id
UtmZoneAlways50Q(square_id) == <<"5", "0", "Q", "-">> \o square_id

\* f"50Q-{square_id}" if square_id in ["JK", "KK"] else f"49Q-{square_id}"
UtmZone(square_id) ==
  IF square_id \in {<<"J", "K">>, <<"K", "K">>}
  THEN <<"5", "0", "Q", "-">> \o square_id
  ELSE <<"4", "9", "Q", "-">> \o square_id

\* the request with the northing starting one digit early
GridParamsOverlap(square_id, numbers) ==
  LET digits == Len(numbers) \div 2
      easting == SubSeq(numbers, 1, digits)
      northing == SubSeq(numbers, digits, Len(numbers))
  IN << <<"inSys", UTMREF>>, <<"outSys", WGSGEOG>>, <<"zone", UtmZone(square_id)>>,
        <<"e", easting>>, <<"n", northing>> >>

\* the request hk_grid_to_lat_lon builds from the groups of the match
GridParams(square_id, numbers) ==
  LET digits == Len(numbers) \div 2
      easting == SubSeq(numbers, 1, digits)
      northing == SubSeq(numbers, digits + 1, Len(numbers))
  IN << <<"inSys", UTMREF>>, <<"outSys", WGSGEOG>>, <<"zone", UtmZone(square_id)>>,
        <<"e", easting>>, <<"n", northing>> >>

\* what a gateway operation that returned before _call_api got from it
NoResponse == [exc |-> "none", data |-> NoData]
\* the reply of a call that sent no request
NoReply == [kind |-> "none", cls |-> "none", data |-> NoData]

\* hk_grid_to_lat_lon(grid_str) with the cache c and the service answering
\* reply: [res, cache, sent, params, api], api being what _call_api returned
HkGridToLatLon(c, grid_str, reply) ==
  LET clean == CleanGrid(grid_str)
      m == ReMatch(GridPattern, clean)
      square_id == Group(m, clean, 1)
      numbers == Group(m, clean, 2)
      params == GridParams(square_id, numbers)
      api == CallApi(c, params, reply)
      data == api.data
      lat == GetOrNone(data, "wgsLat")
      lon == GetOrNone(data, "wgsLong")
      quiet(res) == [res |-> res, cache |-> c, sent |-> FALSE, params |-> <<>>, api |-> NoResponse,
                     reply |-> NoReply]
      called(res) == [res |-> res, cache |-> api.cache, sent |-> api.sent, params |-> params,
                      api |-> [exc |-> api.exc, data |-> api.data],
                      reply |-> IF api.sent THEN reply ELSE NoReply]
  IN IF ~m.ok
     THEN quiet(ResPair(<<>>, "Invalid HK Grid format. Expected format like 'KK123456'.", "nomatch"))
     ELSE IF Len(numbers) % 2 # 0
     THEN quiet(ResPair(<<>>, "Grid numbers must have an even number of digits.", "odd"))
     ELSE IF api.exc # "none" THEN called(ResRaise(api.exc, "api"))
     ELSE IF data.t # "dict" THEN called(ResRaise("AttributeError", "get"))
     ELSE IF HasKey(data, "ErrorCode")
     THEN called(ResPair(<<>>, Get(data, "ErrorMsg", "An unknown API error occurred."), "error"))
     ELSE IF lat # JNull /\ lon # JNull THEN called(ResPair(<<lat, lon>>, JNull, "ok"))
     ELSE called(ResPair(<<>>, "API response was missing latitude/longitude data.", "missing"))

\* lat_lon_to_hk_grid(lat, lon) with the cache c and the service answering
\* reply: [res, cache, sent, params, api]
LatLonToHkGrid(c, lat, lon, reply) ==
  LET params == << <<"inSys", WGSGEOG>>, <<"lat", lat>>, <<"long", lon>> >>
      api == CallApi(c, params, reply)
      data == api.data
      utm_ref_zone == GetOrNone(data, "utmRefZone")
      utm_ref_e == GetOrNone(data, "utmRefE")
      utm_ref_n == GetOrNone(data, "utmRefN")
      truthy(v) == v # JNull /\ v # ""
      quiet(res) == [res |-> res, cache |-> c, sent |-> FALSE, params |-> <<>>, api |-> NoResponse,
                     reply |-> NoReply]
      called(res) == [res |-> res, cache |-> api.cache, sent |-> api.sent, params |-> params,
                      api |-> [exc |-> api.exc, data |-> api.data],
                      reply |-> IF api.sent THEN reply ELSE NoReply]
  IN IF ~InRange(lat, lon)
     THEN quiet(ResPair(<<>>, "Invalid latitude or longitude values.", "range"))
     ELSE IF api.exc # "none" THEN called(ResRaise(api.exc, "api"))
     ELSE IF data.t # "dict" THEN called(ResRaise("AttributeError", "get"))
     ELSE IF HasKey(data, "ErrorCode")
     THEN called(ResPair(<<>>, Get(data, "ErrorMsg", "An unknown API error occurred."), "error"))
     ELSE IF truthy(utm_ref_zone) /\ truthy(utm_ref_e) /\ truthy(utm_ref_n)
     THEN called(ResPair(<<utm_ref_zone, " ", utm_ref_e, utm_ref_n>>, JNull, "ok"))
     ELSE called(ResPair(<<>>, "API response did not contain a formatted grid reference.", "missing"))

\* the bodies the remote service may answer with
JsonBodies(req) ==
  { Dict([wgsLat |-> "22.3", wgsLong |-> "114.2"], req),
    Dict([wgsLat |-> "22.4", wgsLong |-> "114.1"], req),
    Dict([wgsLat |-> JNull, wgsLong |-> "114.2"], req),
    Dict([utmRefZone |-> "50Q", utmRefE |-> "KK 069", utmRefN |-> "077"], req),
    Dict(<<>>, req),
    Dict([ErrorCode |-> "E1", ErrorMsg |-> "bad input"], req),
    Dict([ErrorCode |-> "E1"], req),
    Dict([ErrorCode |-> "E1", ErrorMsg |-> JNull], req),
    Dict([ErrorCode |-> "E1", ErrorMsg |-> ""], req),
    [t |-> "list", f |-> [k \in JsonKeys |-> Absent], req |-> req],
    [t |-> "null", f |-> [k \in JsonKeys |-> Absent], req |-> req] }

\* the replies of the remote service
Replies ==
  {[kind |-> "json", cls |-> "none", data |-> b] : b \in JsonBodies(<<>>)}
  \cup {[kind |-> k, cls |-> "none", data |-> NoData] :
          k \in {"connection_error", "timeout", "http_error"}}
  \cup {[kind |-> "not_json", cls |-> c, data |-> NoData] :
          c \in {"requests.JSONDecodeError", "json.JSONDecodeError"}}

(***************************************************************************)
(* Inputs.  A written coordinate is a pair of halves in one layout; each   *)
(* half is degrees, an optional decimal digit, optional minutes and        *)
(* seconds, an optional leading minus and an optional hemisphere letter.   *)
(* CoordText renders it as the string the user types.                      *)
(***************************************************************************)
MaxLen == 4
MaxGridDigits == 4

RECURSIVE NatToDigits(_)
NatToDigits(n) ==
  IF n < 10 THEN <<DigitSeq[n + 1]>>
  ELSE NatToDigits(n \div 10) \o <<DigitSeq[(n % 10) + 1]>>

SeqsUpTo(S, n) == UNION {[1..k -> S] : k \in 0..n}

LatDegrees == {22, 90, 95, 122}
LonDegrees == {114, 180, 181}
Forms == {"D", "DD", "DM", "DMS"}

Half(neg, deg, form, frac, min) ==
  [neg |-> neg, deg |-> deg,
   frac |-> IF form = "DD" THEN frac ELSE -1,
   min |-> IF form \in {"DM", "DMS"} THEN min ELSE -1,
   sec |-> IF form = "DMS" THEN 45 ELSE -1]

Layouts ==
  {[hemMode |-> "none", symbols |-> sy, sep |-> sp, latHem |-> NoHem, lonHem |-> NoHem] :
     sy \in BOOLEAN, sp \in {<<",", " ">>, <<" ">>}}
  \cup
  {[hemMode |-> hm, symbols |-> sy, sep |-> sp, latHem |-> a, lonHem |-> o] :
     hm \in {"before", "after"}, sy \in BOOLEAN, sp \in {<<",", " ">>, <<" ">>},
     a \in {"N", "S"}, o \in {"E", "W"}}

Written ==
  {[structured |-> TRUE, lat |-> Half(ln, ld, f, 5, 30), lon |-> Half(on, od, f, 2, 12), layout |-> l] :
     ln \in BOOLEAN, ld \in LatDegrees, on \in BOOLEAN, od \in LonDegrees,
     f \in Forms, l \in Layouts}

NoWritten ==
  [structured |-> FALSE, lat |-> Half(FALSE, 0, "D", 0, 0), lon |-> Half(FALSE, 0, "D", 0, 0),
   layout |-> [hemMode |-> "none", symbols |-> FALSE, sep |-> <<>>, latHem |-> NoHem, lonHem |-> NoHem]]

HalfText(h, hem, l) ==
  LET gap == IF l.symbols THEN <<>> ELSE <<" ">>
      body == (IF h.neg THEN <<"-">> ELSE <<>>)
              \o NatToDigits(h.deg)
              \o (IF h.frac >= 0 THEN <<".">> \o NatToDigits(h.frac) ELSE <<>>)
              \o (IF l.symbols THEN <<DEG>> ELSE <<>>)
              \o (IF h.min >= 0
                  THEN gap \o NatToDigits(h.min) \o (IF l.symbols THEN <<APOS>> ELSE <<>>)
                  ELSE <<>>)
              \o (IF h.sec >= 0
                  THEN gap \o NatToDigits(h.sec) \o (IF l.symbols THEN <<QUOTE>> ELSE <<>>)
                  ELSE <<>>)
  IN CASE l.hemMode = "before" -> <<hem>> \o body
       [] l.hemMode = "after" -> body \o <<hem>>
       [] OTHER -> body

CoordText(w) ==
  HalfText(w.lat, w.layout.latHem, w.layout) \o w.layout.sep
  \o HalfText(w.lon, w.layout.lonHem, w.layout)

\* the magnitude a half spells out: degrees + minutes/60 + seconds/3600
WrittenMagnitude(h) ==
  LET part(x) == IF x >= 0 THEN x ELSE 0
  IN Rat((10 * h.deg + part(h.frac)) * 360 + part(h.min) * 60 + part(h.sec), 3600)

\* unstructured strings: everything up to MaxLen over a small alphabet
FreeChars == {"1", ".", "-", "N", "W", ",", " "}
FreeStrings == SeqsUpTo(FreeChars, MaxLen)

\* the examples of the documentation and a few irregular strings
Examples ==
  { <<"2","2",DEG,"1","8",APOS,"3","0",QUOTE,"N"," ","1","1","4",DEG,"1","2",APOS,"4","5",QUOTE,"E">>,
    <<"N","2","2"," ","1","8",".","5",","," ","E","1","1","4"," ","1","2",".","7","5">>,
    <<"2","2",".","3","1","9","3",","," ","1","1","4",".","1","6","9","4">>,
    <<"-","2","2",".","3","1","9","3",","," ","-","1","1","4",".","1","6","9","4">>,
    <<"n","x"," ","e"," ","x">>,
    <<"2","E","1",","," ","1","1","4">>,
    <<"9","5",".","5",".","5",","," ","1","1","4",".","5">>,
    <<"2","2",".","5",";","1","1","4",".","2",";","0">>,
    <<"2","2",PRIME,"3","0",DPRIME,"n",TAB,"1","1","4",PRIME,"1","2",DPRIME,"e">> }

\* grid strings: a prefix, a digit string, and up to one whitespace character
\* put anywhere
GridPrefixes ==
  { <<"K","K">>, <<"k","k">>, <<"K","k">>, <<"J","K">>, <<"G","E">>, <<"h","e">>,
    <<"X","X">>, <<"K","E">>, <<"K">>, <<>>, <<"K","K","K">> }
GridDigits == SeqsUpTo({"0", "7"}, MaxGridDigits)
InsertAt(s, k, c) == SubSeq(s, 1, k) \o <<c>> \o SubSeq(s, k + 1, Len(s))
GridStrings ==
  LET base == {p \o d : p \in GridPrefixes, d \in GridDigits}
  IN base \cup UNION {{InsertAt(b, k, c) : k \in 0..Len(b), c \in WhiteSpace} : b \in base}

(***************************************************************************)
(* app.py: handle_bulk_conversion.  The table, the copyable results and    *)
(* the download entries are the three lists the loop appends to; the       *)
(* copyable text is kept as the sequence of its lines and the download     *)
(* text as the sequence of its entries [n, line, out].  A cell or an       *)
(* entry is a sequence of strings; NoneCell is Python None.                *)
(***************************************************************************)
NL == "\n"
G2W == "HK1980 Grid -> WGS84"
W2G == "WGS84 (Lat/Lon) -> HK1980 Grid"

\* the number a JSON value of the modelled bodies stands for
JsonNumber(v) ==
  CASE v = "22.3" -> Rat(223, 10)
    [] v = "22.4" -> Rat(224, 10)
    [] v = "114.2" -> Rat(1142, 10)
    [] v = "114.1" -> Rat(1141, 10)

\* six decimals cut off instead of rounded
FormatFixed6Truncated(x) ==
  LET a == Abs(x.n)
      ds == NatToDigits(((a % x.d) * 1000000) \div x.d)
  IN (IF x.n < 0 THEN <<"-">> ELSE <<>>)
     \o NatToDigits(a \div x.d) \o <<".">>
     \o [i \in 1..(6 - Len(ds)) |-> "0"] \o ds

\* f"{x:.6f}": the sign, the integer part, a point and six decimals, the
\* last one rounded half to even
FormatFixed6(x) ==
  LET a == Abs(x.n)
      ip == a \div x.d
      scaled == (a % x.d) * 1000000
      q == scaled \div x.d
      rem == scaled % x.d
      up == 2 * rem > x.d \/ (2 * rem = x.d /\ q % 2 = 1)
      r == IF up THEN q + 1 ELSE q
      whole == IF r = 1000000 THEN ip + 1 ELSE ip
      frac == IF r = 1000000 THEN 0 ELSE r
      ds == NatToDigits(frac)
  IN (IF x.n < 0 THEN <<"-">> ELSE <<>>)
     \o NatToDigits(whole) \o <<".">>
     \o [i \in 1..(6 - Len(ds)) |-> "0"] \o ds

\* f"{lat:.6f}, {lon:.6f}"
CopyableEntry(lat, lon) == FormatFixed6(lat) \o <<",", " ">> \o FormatFixed6(lon)

\* [line.strip() for line in input_data.split('\n') if line.strip()]
BulkLines(input_data) ==
  LET raw == SplitAcc(input_data, {NL}, <<>>, TRUE)
      kept == SelectSeq(raw, LAMBDA line : Strip(line) # <<>>)
  IN [i \in 1..Len(kept) |-> Strip(kept[i])]

NoneCell == <<"None">>
ErrorCell(msg) == <<"Error: ", msg>>
\* `if error:`
Truthy(error) == error # JNull /\ error # ""

NoBulkOut ==
  [exc |-> "none", table |-> <<>>, copy |-> <<>>, download |-> <<>>, shown |-> FALSE]

\* the lists after one more line; acc holds the lists, the cache and the
\* exception that ended the loop
BulkAppend(acc, i, line, cells, entry, status, c) ==
  [acc EXCEPT !.table = Append(@, [input |-> line, cells |-> cells, status |-> status]),
              !.copy = Append(@, entry),
              !.download = Append(@, [n |-> i, line |-> line, out |-> entry]),
              !.cache = c]

\* the row of the grid to WGS84 direction for line i, grid_ref being what
\* parse_hk_grid returned and call how hk_grid_to_lat_lon ended
BulkGridRow(acc, i, line, grid_ref, call) ==
  IF grid_ref.kind # "grid"
  THEN BulkAppend(acc, i, line, <<ErrorCell("Invalid format"), <<>>>>,
                  ErrorCell("Invalid format"), "error", acc.cache)
  ELSE IF call.res.kind = "raise"
  THEN [acc EXCEPT !.exc = call.res.exc, !.cache = call.cache]
  ELSE IF Truthy(call.res.error)
  THEN BulkAppend(acc, i, line, <<ErrorCell(call.res.error), <<>>>>,
                  ErrorCell(call.res.error), "error", call.cache)
  ELSE IF call.res.value = <<>>
  THEN [acc EXCEPT !.exc = "TypeError", !.cache = call.cache]
  ELSE LET lat == JsonNumber(call.res.value[1])
           lon == JsonNumber(call.res.value[2])
       IN BulkAppend(acc, i, line, <<FormatFixed6(lat), FormatFixed6(lon)>>,
                     CopyableEntry(lat, lon), "ok", call.cache)

\* the body of the loop of the grid to WGS84 direction for line i
BulkGridCall(acc, i, line, grid_ref, reply) ==
  BulkGridRow(acc, i, line, grid_ref, HkGridToLatLon(acc.cache, grid_ref.grid, reply))
BulkGridLine(acc, i, line, reply) == BulkGridCall(acc, i, line, ParseHkGrid(line), reply)

\* the row of the WGS84 to grid direction for line i, coords being what
\* enhanced_coordinate_parser returned and call how lat_lon_to_hk_grid ended
BulkCoordRow(acc, i, line, coords, call) ==
  IF coords.kind # "point"
  THEN BulkAppend(acc, i, line, <<ErrorCell("Invalid format")>>,
                  ErrorCell("Invalid format"), "error", acc.cache)
  ELSE IF call.res.kind = "raise"
  THEN [acc EXCEPT !.exc = call.res.exc, !.cache = call.cache]
  ELSE IF Truthy(call.res.error)
  THEN BulkAppend(acc, i, line, <<ErrorCell(call.res.error)>>, ErrorCell(call.res.error),
                  "error", call.cache)
  ELSE IF call.res.value = <<>>
  THEN BulkAppend(acc, i, line, <<NoneCell>>, NoneCell, "ok", call.cache)
  ELSE BulkAppend(acc, i, line, <<call.res.value>>, call.res.value, "ok", call.cache)

\* the body of the loop of the WGS84 to grid direction for line i; parser
\* is enhanced_coordinate_parser as a function of its argument
BulkCoordCall(acc, i, line, coords, reply) ==
  BulkCoordRow(acc, i, line, coords, LatLonToHkGrid(acc.cache, coords.lat, coords.lon, reply))
BulkCoordLine(acc, i, line, reply, parser) == BulkCoordCall(acc, i, line, parser[line], reply)

\* for i, line in enumerate(lines, 1), from line i on
RECURSIVE BulkLoop(_, _, _, _, _, _)
BulkLoop(direction, lines, replies, parser, i, acc) ==
  IF i > Len(lines) \/ acc.exc # "none" THEN acc
  ELSE BulkLoop(direction, lines, replies, parser, i + 1,
                IF direction = G2W
                THEN BulkGridLine(acc, i, lines[i], replies[i])
                ELSE BulkCoordLine(acc, i, lines[i], replies[i], parser))

\* what the page holds after the loop ended as acc: nothing after an
\* exception, the table alone when the join of the copyable results fails
BulkShow(acc) ==
  IF acc.exc # "none" THEN [NoBulkOut EXCEPT !.exc = acc.exc]
  ELSE IF acc.table = <<>> THEN NoBulkOut
  ELSE IF \E k \in 1..Len(acc.copy) : acc.copy[k] = NoneCell
  THEN [NoBulkOut EXCEPT !.exc = "TypeError", !.table = acc.table, !.shown = TRUE]
  ELSE [exc |-> "none", table |-> acc.table, copy |-> acc.copy,
        download |-> acc.download, shown |-> TRUE]

BulkEnd(acc) == [cache |-> acc.cache, out |-> BulkShow(acc)]

\* handle_bulk_conversion after a click on "Convert All", the service
\* answering the request of line i, if one is sent, with replies[i]:
\* [out, cache], out being what the page holds afterwards
HandleBulkConversion(c, direction, input_data, replies, parser) ==
  BulkEnd(BulkLoop(direction, BulkLines(input_data), replies, parser, 1,
                   [exc |-> "none", table |-> <<>>, copy |-> <<>>, download |-> <<>>,
                    cache |-> c]))

(***************************************************************************)
(* State                                                                   *)
(***************************************************************************)
MaxCalls == 3
MaxLines == 3

\* the strings and points of the runs that make several gateway calls
GatewayGrids == { <<"K","K","0","0","7","7">>, <<"k","k"," ","0","0","7","7">>,
                  <<"G","E","0","7">>, <<"X","X","0","7">> }
GatewayPoints == { <<Rat(223, 10), Rat(1142, 10)>>, <<RInt(95), RInt(0)>> }

VARIABLES
  pc,       \* "idle": waiting for a call; "called": an operation has been
            \* called; "done": it has returned
  op,       \* the operation called
  input,    \* the string passed to it
  point,    \* the (lat, lon) passed to it
  written,  \* what the user wrote, for a written coordinate (not read by the code)
  result,   \* what the call returned
  cache,    \* HKGridConverter._cache: cache key -> response
  sent,     \* whether the call made a network request
  request,  \* the parameters of that request
  response, \* what _call_api returned to the operation: [exc, data]
  answered, \* the reply of the remote service to that request
  bulk,     \* a bulk conversion: its direction, the replies of the service
            \* to its lines and what the page holds afterwards
  calls,    \* the number of gateway calls returned so far
  threads   \* the threads inside _call_api at the same time: thread -> its
            \* position, its parameters and its local variables

vars == <<pc, op, input, point, written, result, cache, sent, request, response, answered, calls, bulk,
          threads>>

\* no thread is inside _call_api beside the caller
NoThreads == <<>>

\* the bulk record of a process that converts nothing in bulk
NoBulk == [direction |-> "none", replies |-> <<>>, out |-> NoBulkOut]

\* the point of a call that takes none
NoPoint == <<RZero, RZero>>

NoCache == [k \in {} |-> NoData]

\* the points a copyable result of the grid to WGS84 direction is made of
\* and given back to the coordinate parser: in Hong Kong and far from it,
\* negative, whole, on the boundary, with more than six decimals
OutputLats ==
  {RInt(0), RInt(22), RInt(-22), RInt(90), RInt(-90), Rat(223, 10), Rat(2817, 128),
   Rat(-2817, 128), Rat(2819, 128), Rat(-1, 128), Rat(-1, 4000000),
   HK_LAT_MIN, HK_LAT_MAX, Rat(2261, 100)}
OutputLons ==
  {RInt(0), RInt(114), RInt(-114), RInt(180), RInt(-180), Rat(1142, 10), Rat(14593, 128),
   Rat(-14595, 128), HK_LON_MIN, HK_LON_MAX, Rat(11379, 100)}
OutputPoints == {<<lat, lon>> : lat \in OutputLats, lon \in OutputLons} \ {NoPoint}

\* the calls a fresh process may receive: the operation, its argument and,
\* for a written coordinate, what was written
Requests ==
  {[op |-> "enhanced_coordinate_parser", input |-> CoordText(w), point |-> NoPoint, written |-> w] : w \in Written}
  \cup {[op |-> "enhanced_coordinate_parser", input |-> s, point |-> NoPoint, written |-> NoWritten] :
          s \in FreeStrings \cup Examples \cup GridStrings}
  \cup {[op |-> "parse_hk_grid", input |-> s, point |-> NoPoint, written |-> NoWritten] :
          s \in GridStrings \cup FreeStrings}
  \cup {[op |-> "hk_grid_to_lat_lon", input |-> s, point |-> NoPoint, written |-> NoWritten] :
          s \in GridStrings \cup FreeStrings}
  \cup {[op |-> "lat_lon_to_hk_grid", input |-> <<>>, point |-> p, written |-> NoWritten] : p \in GatewayPoints}
  \cup {[op |-> "enhanced_coordinate_parser", input |-> CopyableEntry(p[1], p[2]), point |-> p,
          written |-> NoWritten] : p \in OutputPoints}

\* the calls of a process that makes several gateway calls
GatewayRequests ==
  {[op |-> "hk_grid_to_lat_lon", input |-> s, point |-> NoPoint, written |-> NoWritten] : s \in GatewayGrids}
  \cup {[op |-> "lat_lon_to_hk_grid", input |-> <<>>, point |-> p, written |-> NoWritten] : p \in GatewayPoints}

\* a fresh process (empty cache) that has just been called
Init ==
  /\ pc = "called"
  /\ \E r \in Requests : op = r.op /\ input = r.input /\ point = r.point /\ written = r.written
  /\ result = ResNone(<<>>, "init")
  /\ cache = NoCache
  /\ sent = FALSE
  /\ request = <<>>
  /\ response = NoResponse
  /\ answered = NoReply
  /\ calls = 0
  /\ bulk = NoBulk
  /\ threads = NoThreads

\* a fresh process waiting for its first call
InitGateway ==
  /\ pc = "idle"
  /\ op = "none"
  /\ input = <<>>
  /\ point = NoPoint
  /\ written = NoWritten
  /\ result = ResNone(<<>>, "init")
  /\ cache = NoCache
  /\ sent = FALSE
  /\ request = <<>>
  /\ response = NoResponse
  /\ answered = NoReply
  /\ calls = 0
  /\ bulk = NoBulk
  /\ threads = NoThreads

\* the application calls a gateway operation
Submit ==
  /\ pc = "idle"
  /\ calls < MaxCalls
  /\ pc' = "called"
  /\ \E r \in GatewayRequests : op' = r.op /\ input' = r.input /\ point' = r.point /\ written' = r.written
  /\ UNCHANGED <<result, cache, sent, request, response, answered, calls, bulk, threads>>

\* the strings the coordinate parser is called with
CoordInputs == {r.input : r \in {x \in Requests : x.op = "enhanced_coordinate_parser"}}

\* enhanced_coordinate_parser(input, converter) runs and returns; parser is
\* the function from its argument to what it returns
ParseCoordinate(parser) ==
  /\ pc = "called"
  /\ op = "enhanced_coordinate_parser"
  /\ pc' = "done"
  /\ result' = parser[input]
  /\ UNCHANGED <<op, input, point, written, cache, sent, request, response, answered, calls, bulk, threads>>

\* parse_hk_grid(input) runs and returns ret
ParseGrid(ret) ==
  /\ pc = "called"
  /\ op = "parse_hk_grid"
  /\ pc' = "done"
  /\ result' = ret
  /\ UNCHANGED <<op, input, point, written, cache, sent, request, response, answered, calls, bulk, threads>>

\* hk_grid_to_lat_lon(input) runs and ends as out
GridToLatLon(out) ==
  /\ pc = "called"
  /\ op = "hk_grid_to_lat_lon"
  /\ pc' = "done"
  /\ result' = out.res
  /\ cache' = out.cache
  /\ sent' = out.sent
  /\ request' = out.params
  /\ response' = out.api
  /\ answered' = out.reply
  /\ calls' = calls + 1
  /\ UNCHANGED <<op, input, point, written, bulk, threads>>

\* lat_lon_to_hk_grid(lat, lon) runs and ends as out
LatLonToGrid(out) ==
  /\ pc = "called"
  /\ op = "lat_lon_to_hk_grid"
  /\ pc' = "done"
  /\ result' = out.res
  /\ cache' = out.cache
  /\ sent' = out.sent
  /\ request' = out.params
  /\ response' = out.api
  /\ answered' = out.reply
  /\ calls' = calls + 1
  /\ UNCHANGED <<op, input, point, written, bulk, threads>>

\* the call has returned; the process, and its cache, live on
NextCall ==
  /\ pc = "done"
  /\ pc' = "idle"
  /\ UNCHANGED <<op, input, point, written, result, cache, sent, request, response, answered, calls, bulk, threads>>

\* the lines a user may put in the text area, by direction
BulkRawLines(direction) ==
  IF direction = G2W
  THEN { <<"K","K","0","0","7","7">>, <<" ","g","e","0","7"," ">>, <<"X","X","0","7">>, <<" ">> }
  ELSE { <<"2","2",".","3",","," ","1","1","4",".","2">>, <<"2","2",".","4",",","1","1","4",".","1">>,
         <<"x","x">>, <<" ">> }

\* "\n".join(lines)
RECURSIVE JoinLines(_)
JoinLines(lines) ==
  IF lines = <<>> THEN <<>>
  ELSE IF Len(lines) = 1 THEN lines[1]
  ELSE lines[1] \o <<NL>> \o JoinLines(Tail(lines))

\* the texts of up to MaxLines lines
BulkTexts(direction) == {JoinLines(ls) : ls \in SeqsUpTo(BulkRawLines(direction), MaxLines)}

\* the replies of the remote service to the lines of a bulk conversion
BulkReplies ==
  {[kind |-> "json", cls |-> "none", data |-> b] :
     b \in { Dict([wgsLat |-> "22.3", wgsLong |-> "114.2"], <<>>),
             Dict([utmRefZone |-> "50Q", utmRefE |-> "KK 069", utmRefN |-> "077"], <<>>),
             Dict([ErrorCode |-> "E1", ErrorMsg |-> "bad input"], <<>>),
             Dict([ErrorCode |-> "E1", ErrorMsg |-> JNull], <<>>) }}
  \cup {[kind |-> "timeout", cls |-> "none", data |-> NoData]}

\* the strings the bulk conversion passes to the coordinate parser
BulkCoordLines == {Strip(l) : l \in BulkRawLines(W2G)}

\* a fresh process in which "Convert All" has just been clicked
InitBulk ==
  /\ pc = "called"
  /\ op = "handle_bulk_conversion"
  /\ \E direction \in {G2W, W2G} :
       \E input_data \in BulkTexts(direction) :
         \E replies \in [1..Len(BulkLines(input_data)) -> BulkReplies] :
           /\ input = input_data
           /\ bulk = [direction |-> direction, replies |-> replies, out |-> NoBulkOut]
  /\ point = NoPoint
  /\ written = NoWritten
  /\ result = ResNone(<<>>, "init")
  /\ cache = NoCache
  /\ sent = FALSE
  /\ request = <<>>
  /\ response = NoResponse
  /\ answered = NoReply
  /\ calls = 0
  /\ threads = NoThreads

\* the page and the cache after the bulk conversion ended as r
BulkEnds(r) ==
  /\ bulk' = [bulk EXCEPT !.out = r.out]
  /\ cache' = r.cache

\* handle_bulk_conversion runs to its end; parser is
\* enhanced_coordinate_parser as a function of its argument
BulkConvert(parser) ==
  /\ pc = "called"
  /\ op = "handle_bulk_conversion"
  /\ pc' = "done"
  /\ BulkEnds(HandleBulkConversion(cache, bulk.direction, input, bulk.replies, parser))
  /\ UNCHANGED <<op, input, point, written, result, sent, request, response, answered, calls, threads>>

NextBulk == BulkConvert([coord_str \in BulkCoordLines |-> EnhancedCoordinateParser(coord_str)])

\* one bulk conversion in a fresh process
SpecBulk == InitBulk /\ [][NextBulk]_vars

(***************************************************************************)
(* Several threads inside _call_api.  get_converter is a cached resource   *)
(* and _cache a class attribute, so the script runs of all sessions, one   *)
(* thread each, share one cache.  A thread is at "lookup" (line 20), at    *)
(* "read" (line 21), at "fetch" (lines 23-25), at "store" (lines 26-28) or *)
(* "done"; a step is one access to the cache or one exchange with the      *)
(* service.                                                                *)
(***************************************************************************)
MaxThreads == 2
ThreadIds == 1..MaxThreads

\* the parameter sets of the concurrent calls: one twice, in two orders of
\* its pairs, and another one
RaceParams ==
  { GridParams(<<"K","K">>, <<"0","0","7","7">>),
    [i \in 1..5 |-> GridParams(<<"K","K">>, <<"0","0","7","7">>)[6 - i]],
    GridParams(<<"G","E">>, <<"0","7">>) }

\* the replies of the service to the concurrent calls
RaceReplies ==
  {[kind |-> "json", cls |-> "none", data |-> b] :
     b \in { Dict([wgsLat |-> "22.3", wgsLong |-> "114.2"], <<>>),
             Dict([wgsLat |-> "22.4", wgsLong |-> "114.1"], <<>>),
             Dict([ErrorCode |-> "E1", ErrorMsg |-> "bad input"], <<>>),
             [t |-> "null", f |-> [k \in JsonKeys |-> Absent], req |-> <<>>] }}
  \cup {[kind |-> "timeout", cls |-> "none", data |-> NoData]}

\* a thread that has just entered _call_api(params)
Entered(params) ==
  [pc |-> "lookup", params |-> params, sent |-> FALSE, reply |-> NoReply, exc |-> "none",
   data |-> NoData]

\* every stored response kept, errors too
StoredAlways(c, cache_key, data) ==
  [k \in DOMAIN c \cup {cache_key} |-> IF k = cache_key THEN data ELSE c[k]]

\* if "ErrorCode" not in data: self._cache[cache_key] = data
Stored(c, cache_key, data) ==
  IF ~HasKey(data, "ErrorCode")
  THEN [k \in DOMAIN c \cup {cache_key} |-> IF k = cache_key THEN data ELSE c[k]]
  ELSE c

\* one process (empty cache) whose threads have all just entered _call_api
InitRace ==
  /\ pc = "called"
  /\ op = "_call_api"
  /\ input = <<>>
  /\ point = NoPoint
  /\ written = NoWritten
  /\ result = ResNone(<<>>, "init")
  /\ cache = NoCache
  /\ sent = FALSE
  /\ request = <<>>
  /\ response = NoResponse
  /\ answered = NoReply
  /\ calls = 0
  /\ bulk = NoBulk
  /\ threads \in [ThreadIds -> {Entered(params) : params \in RaceParams}]

\* line 20 in thread t: if cache_key in self._cache
Lookup(t) ==
  /\ threads[t].pc = "lookup"
  /\ threads' = [threads EXCEPT ![t].pc = IF CacheKey(threads[t].params) \in DOMAIN cache
                                         THEN "read" ELSE "fetch"]
  /\ UNCHANGED cache
  /\ UNCHANGED <<pc, op, input, point, written, result, sent, request, response, answered, calls, bulk>>

\* line 21 in thread t: return self._cache[cache_key]
ReadEntry(t) ==
  /\ threads[t].pc = "read"
  /\ threads' = [threads EXCEPT ![t].pc = "done",
                                ![t].data = cache[CacheKey(threads[t].params)]]
  /\ UNCHANGED cache
  /\ UNCHANGED <<pc, op, input, point, written, result, sent, request, response, answered, calls, bulk>>

\* lines 23-25 and 29-32 in thread t: the request is sent and the service
\* answers reply; a failure is turned into an error response and returned
Fetch(t, reply) ==
  /\ threads[t].pc = "fetch"
  /\ LET cache_key == CacheKey(threads[t].params)
         raised == CASE reply.kind = "connection_error" -> "ConnectionError"
                     [] reply.kind = "timeout" -> "Timeout"
                     [] reply.kind = "http_error" -> "HTTPError"
                     [] reply.kind = "not_json" -> reply.cls
                     [] OTHER -> "none"
     IN threads' = [threads EXCEPT
          ![t].sent = TRUE,
          ![t].reply = reply,
          ![t].pc = IF raised = "none" THEN "store" ELSE "done",
          ![t].exc = IF raised # "none" /\ Handler(raised) = "none" THEN raised ELSE "none",
          ![t].data = IF raised = "none" THEN [reply.data EXCEPT !.req = cache_key]
                      ELSE IF Handler(raised) = "RequestException"
                      THEN ErrorData("Network Error", "str(e)", cache_key)
                      ELSE IF Handler(raised) = "JSONDecodeError"
                      THEN ErrorData("Invalid Response", "Could not parse JSON from API.", cache_key)
                      ELSE NoData]
  /\ UNCHANGED cache
  /\ UNCHANGED <<pc, op, input, point, written, result, sent, request, response, answered, calls, bulk>>

\* lines 26-28 in thread t: the response is stored unless it is an error and
\* returned; the membership test raises TypeError on a body that is null
Store(t) ==
  /\ threads[t].pc = "store"
  /\ IF threads[t].data.t = "null"
     THEN /\ threads' = [threads EXCEPT ![t].pc = "done", ![t].exc = "TypeError", ![t].data = NoData]
          /\ UNCHANGED cache
     ELSE /\ threads' = [threads EXCEPT ![t].pc = "done"]
          /\ cache' = Stored(cache, CacheKey(threads[t].params), threads[t].data)
  /\ UNCHANGED <<pc, op, input, point, written, result, sent, request, response, answered, calls, bulk>>

\* one thread takes its next step
NextRace ==
  \E t \in ThreadIds :
    \/ Lookup(t)
    \/ ReadEntry(t)
    \/ \E reply \in RaceReplies : Fetch(t, reply)
    \/ Store(t)

\* concurrent calls of _call_api on one cache
SpecRace == InitRace /\ [][NextRace]_vars

\* the operation that was called runs to its return
Next ==
  \/ ParseCoordinate([coord_str \in CoordInputs |-> EnhancedCoordinateParser(coord_str)])
  \/ ParseGrid(ParseHkGrid(input))
  \/ \E reply \in Replies : GridToLatLon(HkGridToLatLon(cache, input, reply))
  \/ \E reply \in Replies : LatLonToGrid(LatLonToHkGrid(cache, point[1], point[2], reply))

\* one call in a fresh process
Spec == Init /\ [][Next]_vars

\* a process making up to MaxCalls gateway calls on its one cache
NextGateway ==
  \/ Submit
  \/ \E reply \in Replies : GridToLatLon(HkGridToLatLon(cache, input, reply))
  \/ \E reply \in Replies : LatLonToGrid(LatLonToHkGrid(cache, point[1], point[2], reply))
  \/ NextCall

SpecGateway == InitGateway /\ [][NextGateway]_vars

(***************************************************************************)
(* Properties of the coordinate parser                                     *)
(***************************************************************************)
CoordReturned == pc = "done" /\ op = "enhanced_coordinate_parser"
GridReturned == pc = "done" /\ op = "parse_hk_grid"

\* the value a half spells out, with the sign the documentation gives it:
\* negated for S or W, or for a leading minus without a hemisphere letter
DocumentedValue(h, hem) ==
  IF hem \in {"S", "W"} \/ (hem = NoHem /\ h.neg)
  THEN RNeg(WrittenMagnitude(h)) ELSE WrittenMagnitude(h)

WrittenInRange ==
  /\ RLe(WrittenMagnitude(written.lat), RInt(90))
  /\ RLe(WrittenMagnitude(written.lon), RInt(180))

\* C1: every returned pair has -90 <= lat <= 90 and -180 <= lon <= 180, and
\* a written coordinate whose latitude or longitude is out of range yields
\* None on every parsing path.
C1_RangeValidation ==
  CoordReturned =>
    /\ result.kind = "point" =>
         /\ RLe(RInt(-90), result.lat) /\ RLe(result.lat, RInt(90))
         /\ RLe(RInt(-180), result.lon) /\ RLe(result.lon, RInt(180))
    /\ (written.structured /\ ~WrittenInRange) => result.kind = "none"

\* C2: a half without a hemisphere letter has the value degrees + minutes/60
\* + seconds/3600 of its written components, negated when it carries a
\* leading minus sign: -22 30 is -(22 + 30/60).
C2_SignRule ==
  (CoordReturned /\ written.structured /\ written.layout.hemMode = "none"
     /\ result.kind = "point") =>
    /\ result.lat = DocumentedValue(written.lat, NoHem)
    /\ result.lon = DocumentedValue(written.lon, NoHem)

\* C3: for a half that carries both a hemisphere letter and a leading minus
\* sign the parser does not raise, and the letter alone decides the sign:
\* N or E gives a non-negative value, S or W a non-positive one.
C3_HemisphereAuthoritative ==
  (CoordReturned /\ written.structured /\ written.layout.hemMode # "none") =>
    /\ result.kind # "raise"
    /\ (result.kind = "point" /\ written.lat.neg) =>
         IF written.layout.latHem = "N" THEN result.lat.n >= 0 ELSE result.lat.n <= 0
    /\ (result.kind = "point" /\ written.lon.neg) =>
         IF written.layout.lonHem = "E" THEN result.lon.n >= 0 ELSE result.lon.n <= 0

\* C4: a coordinate whose halves are each one in-range decimal-degree token
\* plus a hemisphere letter (before or after the number, halves separated by
\* a comma or by whitespace only) parses to the written degrees, negated for
\* S and W.
C4_DegreesOnly ==
  (CoordReturned /\ written.structured /\ written.layout.hemMode # "none"
     /\ ~written.layout.symbols
     /\ written.lat.min < 0 /\ written.lon.min < 0
     /\ ~written.lat.neg /\ ~written.lon.neg
     /\ WrittenInRange) =>
    /\ result.kind = "point"
    /\ result.lat = DocumentedValue(written.lat, written.layout.latHem)
    /\ result.lon = DocumentedValue(written.lon, written.layout.lonHem)

\* a canonical grid string: a prefix of the fixed set and an even, non-zero
\* number of digits
IsCanonicalGrid(g) ==
  /\ Len(g) >= 4
  /\ Len(g) % 2 = 0
  /\ SubSeq(g, 1, 2) \in {<<"G", "E">>, <<"H", "E">>, <<"J", "K">>, <<"K", "K">>}
  /\ \A i \in 3..Len(g) : g[i] \in Digit

\* C5: the parsers never raise: enhanced_coordinate_parser returns a pair or
\* None and parse_hk_grid returns a canonical grid string or None, for every
\* input string.
C5_NeverRaises ==
  (CoordReturned \/ GridReturned) =>
    /\ result.kind # "raise"
    /\ op = "enhanced_coordinate_parser" => result.kind \in {"point", "none"}
    /\ op = "parse_hk_grid" =>
         /\ result.kind \in {"grid", "none"}
         /\ result.kind = "grid" => IsCanonicalGrid(result.grid)

\* a string with a separator and a token float() rejects went through all
\* three parsing paths and came back as None
C5_Witness ==
  /\ CoordReturned
  /\ Contains(input, ",")
  /\ Contains(input, "N")
  /\ result.kind = "none"
  /\ result.path = "end"

(***************************************************************************)
(* Properties of the grid reference parser and of the reverse conversion   *)
(***************************************************************************)
GridCalled == pc = "done" /\ op = "hk_grid_to_lat_lon"

\* the input without any whitespace character, in upper case
WithoutWhitespace(s) == Remove(Upper(s), WhiteSpace)

\* hk_grid_to_lat_lon returned an error without a request
RejectedQuietly ==
  /\ result.kind = "pair"
  /\ result.value = <<>>
  /\ result.error # JNull
  /\ ~sent
  /\ request = <<>>

\* the value of parameter k of the request
Param(k) == (CHOOSE q \in {request[i] : i \in 1..Len(request)} : q[1] = k)[2]

\* C6: parse_hk_grid returns a grid reference if and only if the input,
\* with whitespace removed and in upper case, is a prefix of {GE, HE, JK, KK}
\* followed by an even, non-zero number of digits; hk_grid_to_lat_lon rejects
\* exactly the other strings, with an error and without a request.
C6_GridAcceptance ==
  /\ GridReturned =>
       (result.kind = "grid" <=> IsCanonicalGrid(WithoutWhitespace(input)))
  /\ GridCalled =>
       (RejectedQuietly <=> ~IsCanonicalGrid(WithoutWhitespace(input)))

\* C7: whitespace anywhere in an accepted grid reference and the case of
\* its letters do not change the result of parse_hk_grid, which is the
\* upper-case prefix followed by the digits; parse_hk_grid returns its own
\* output unchanged.
C7_GridNormalization ==
  GridReturned =>
    /\ IsCanonicalGrid(WithoutWhitespace(input)) =>
         result = ResGrid(WithoutWhitespace(input), "match")
    /\ result.kind = "grid" => ParseHkGrid(result.grid) = result

\* the digits of the input, in order
DigitsOf(s) == SelectSeq(s, LAMBDA c : c \in Digit)

\* hk_grid_to_lat_lon accepts the input: the string it matches is a
\* canonical grid reference
GridAccepted == IsCanonicalGrid(CleanGrid(input))

\* C8: for an accepted grid reference with digit string d of length 2k,
\* hk_grid_to_lat_lon sends easting = the first k digits of d and northing =
\* the last k digits of d: both of length k, leading zeros kept, and
\* easting followed by northing is d.
C8_EastingNorthingSplit ==
  (GridCalled /\ GridAccepted) =>
    LET d == DigitsOf(input)
        k == Len(d) \div 2
    IN /\ request # <<>>
       /\ k >= 1
       /\ Len(d) = 2 * k
       /\ Param("e") = SubSeq(d, 1, k)
       /\ Param("n") = SubSeq(d, k + 1, 2 * k)
       /\ Len(Param("e")) = k
       /\ Len(Param("n")) = k
       /\ Param("e") \o Param("n") = d

\* a reference with leading zeros in both halves was sent
C8_Witness ==
  /\ GridCalled
  /\ sent
  /\ DigitsOf(input) = <<"0", "7", "0", "0">>
  /\ Param("e") = <<"0", "7">>
  /\ Param("n") = <<"0", "0">>

\* the prefix of the input as hk_grid_to_lat_lon reads it
PrefixOf(s) == SubSeq(CleanGrid(s), 1, 2)

\* C9 as stated: the zone parameter is 50Q for JK and KK, 49Q for GE and HE.
C9_BareZone ==
  (GridCalled /\ GridAccepted) =>
    /\ request # <<>>
    /\ Param("zone") = IF PrefixOf(input) \in {<<"J", "K">>, <<"K", "K">>}
                       THEN <<"5", "0", "Q">> ELSE <<"4", "9", "Q">>

\* C9: for an accepted grid reference hk_grid_to_lat_lon sends the zone
\* parameter 50Q-<prefix> when the prefix is JK or KK and 49Q-<prefix> when
\* it is GE or HE, with inSys = utmref and outSys = wgsgeog; a request is
\* only ever built for one of these four prefixes.
C9_ZoneMapping ==
  GridCalled =>
    /\ GridAccepted =>
         /\ request # <<>>
         /\ Param("inSys") = UTMREF
         /\ Param("outSys") = WGSGEOG
         /\ PrefixOf(input) \in {<<"J", "K">>, <<"K", "K">>} =>
              Param("zone") = <<"5", "0", "Q", "-">> \o PrefixOf(input)
         /\ PrefixOf(input) \in {<<"G", "E">>, <<"H", "E">>} =>
              Param("zone") = <<"4", "9", "Q", "-">> \o PrefixOf(input)
    /\ request # <<>> =>
         PrefixOf(input) \in {<<"G", "E">>, <<"H", "E">>, <<"J", "K">>, <<"K", "K">>}
    /\ sent => request # <<>>

\* a lower-case HE reference was sent with zone 49Q-HE
C9_Witness ==
  /\ GridCalled
  /\ sent
  /\ SubSeq(input, 1, 2) = <<"h", "e">>
  /\ Param("zone") = <<"4", "9", "Q", "-", "H", "E">>

(***************************************************************************)
(* Properties of the response cache                                        *)
(***************************************************************************)
\* C10: no entry of the response cache carries an ErrorCode, whatever the
\* calls made and the replies received.
C10_CacheHoldsNoError ==
  \A k \in DOMAIN cache : ~HasKey(cache[k], "ErrorCode")

\* with a response already stored, a later call sent a request that was
\* answered with an ErrorCode
C10_Witness ==
  /\ pc = "done"
  /\ calls >= 2
  /\ cache # NoCache
  /\ sent
  /\ result.path = "error"
  /\ CacheKey(request) \notin DOMAIN cache

\* the pairs of a request in the opposite order
Reversed(params) == [i \in 1..Len(params) |-> params[Len(params) + 1 - i]]

\* a gateway operation returns in this step, having built a request
GatewayReturns == pc = "called" /\ pc' = "done" /\ request' # <<>>

\* C11: once a response is stored for a parameter set, every later call
\* with the same pairs, in any order, returns the stored response without a
\* network request, and no entry is ever removed or replaced; a parameter
\* set with no entry, its earlier calls having failed, is sent again.
C11_CacheHitAndPersistence ==
  [][/\ \A k \in DOMAIN cache : k \in DOMAIN cache' /\ cache'[k] = cache[k]
     /\ GatewayReturns =>
          LET key == CacheKey(request')
          IN /\ CacheKey(Reversed(request')) = key
             /\ key \in DOMAIN cache =>
                  /\ ~sent'
                  /\ response' = [exc |-> "none", data |-> cache[key]]
                  /\ cache' = cache
             /\ key \notin DOMAIN cache =>
                  /\ sent'
                  /\ (response'.exc # "none" \/ HasKey(response'.data, "ErrorCode")) =>
                       cache' = cache
                  /\ (response'.exc = "none" /\ ~HasKey(response'.data, "ErrorCode")) =>
                       /\ key \in DOMAIN cache'
                       /\ cache'[key] = response'.data]_vars

\* the third call of the process was answered from the one stored entry,
\* without a request
C11_Witness ==
  /\ pc = "done"
  /\ calls = 3
  /\ request # <<>>
  /\ ~sent
  /\ CacheKey(request) \in DOMAIN cache
  /\ response.data = cache[CacheKey(request)]
  /\ Cardinality(DOMAIN cache) = 1

(***************************************************************************)
(* Properties of the gateway's failure handling                            *)
(***************************************************************************)
\* C12: _call_api never raises; a connection error, an HTTP error status
\* and a timeout give a response with ErrorCode "Network Error", a body
\* that is not JSON gives a response with ErrorCode "Invalid Response".
C12_FailureKinds ==
  (pc = "done" /\ sent) =>
    /\ response.exc = "none"
    /\ answered.kind \in {"connection_error", "http_error", "timeout"} =>
         response.data.f["ErrorCode"] = "Network Error"
    /\ answered.kind = "not_json" =>
         response.data.f["ErrorCode"] = "Invalid Response"


(***************************************************************************)
(* Properties of the bulk conversion                                       *)
(***************************************************************************)

BulkReturned == pc = "done" /\ op = "handle_bulk_conversion"

\* line i of the batch cannot be converted: it does not parse
BulkLineUnparsable(direction, line) ==
  IF direction = G2W THEN ParseHkGrid(line).kind # "grid"
  ELSE EnhancedCoordinateParser(line).kind # "point"

\* C13: a bulk conversion of N non-empty trimmed lines never aborts and
\* shows N table rows, N copyable entries and N download entries numbered
\* 1..N, entry i describing line i; a line that does not parse has an error
\* row, and only a line that does not parse or whose request was not
\* answered with the expected fields has one.
C13_BulkRowPerLine ==
  BulkReturned =>
    LET lines == BulkLines(input)
        out == bulk.out
    IN /\ out.exc = "none"
       /\ Len(out.table) = Len(lines)
       /\ Len(out.copy) = Len(lines)
       /\ Len(out.download) = Len(lines)
       /\ \A i \in 1..Len(out.table) :
            /\ out.table[i].input = lines[i]
            /\ out.download[i].n = i
            /\ out.download[i].line = lines[i]
            /\ out.download[i].out = out.copy[i]
            /\ BulkLineUnparsable(bulk.direction, lines[i]) => out.table[i].status = "error"
            /\ out.table[i].status = "ok" => \A k \in 1..Len(out.table[i].cells) :
                                               out.table[i].cells[k] # NoneCell


(***************************************************************************)
(* Properties of the decimal-degree round trip                             *)
(***************************************************************************)

\* the copyable result of a point was handed to the coordinate parser
OutputParsed == CoordReturned /\ point # NoPoint

\* x rounded to six decimals, half to even
Round6(x) ==
  LET a == Abs(x.n)
      scaled == (a % x.d) * 1000000
      q == scaled \div x.d
      rem == scaled % x.d
      r == IF 2 * rem > x.d \/ (2 * rem = x.d /\ q % 2 = 1) THEN q + 1 ELSE q
      m == (a \div x.d) * 1000000 + r
  IN Rat(IF x.n < 0 THEN -m ELSE m, 1000000)

\* C14 as stated: the six-decimal text of an in-range pair parses to the
\* same pair.
C14_SamePair ==
  OutputParsed => /\ result.kind = "point"
                  /\ result.lat = point[1]
                  /\ result.lon = point[2]

\* C14: the six-decimal text "<lat>, <lon>" of an in-range pair parses to the
\* pair rounded to six decimals, which is the pair itself when neither
\* value has more than six decimals.
C14_PairRoundedToSixDecimals ==
  OutputParsed => /\ result.kind = "point"
                  /\ result.lat = Round6(point[1])
                  /\ result.lon = Round6(point[2])

\* a negative latitude with more than six decimals came back rounded up in
\* magnitude, beside a longitude on the boundary
C14_Witness ==
  /\ OutputParsed
  /\ point = <<Rat(-2817, 128), RInt(-180)>>
  /\ result.kind = "point"
  /\ result.lat = Rat(-22007812, 1000000)
  /\ result.lon = RInt(-180)


(***************************************************************************)
(* Properties of the Hong Kong bounds check                                *)
(***************************************************************************)

Warned == \E k \in 1..Len(result.msgs) : result.msgs[k] = "warning"
Refused == \E k \in 1..Len(result.msgs) : result.msgs[k] = "error"

\* C15: the Hong Kong box is advisory. On each of the three parsing paths a
\* returned point is in range and comes with exactly one warning when it
\* lies outside [22.15, 22.60] x [113.80, 114.45] and with no message when
\* it lies inside, the edges included; a warning never comes with None.
C15_BoundsAdvisory ==
  CoordReturned =>
    /\ result.kind = "point" =>
         /\ result.path \in {"flex", "dd", "fallback"}
         /\ InRange(result.lat, result.lon)
         /\ ~Refused
         /\ Warned <=> ~(/\ RLe(Rat(2215, 100), result.lat) /\ RLe(result.lat, Rat(2260, 100))
                         /\ RLe(Rat(11380, 100), result.lon) /\ RLe(result.lon, Rat(11445, 100)))
         /\ Len(result.msgs) <= 1
    /\ Warned => result.kind = "point"
    /\ (point # NoPoint) => result.kind = "point"

\* the third parsing path returned a point outside the box, with a warning
C15_Witness ==
  /\ CoordReturned
  /\ result.kind = "point"
  /\ result.path = "fallback"
  /\ Warned
  /\ ~InHongKong(result.lat, result.lon)


(***************************************************************************)
(* Properties of the split at the hemisphere letters                       *)
(***************************************************************************)

\* the positions of the letters of cs in s
Positions(s, cs) == {k \in 1..Len(s) : s[k] \in cs}

\* s has no comma and no semicolon, starts with its only latitude letter
\* and has one longitude letter, after it
HemisphereSections(s) ==
  /\ Positions(s, {",", ";"}) = {}
  /\ Positions(s, {"N", "S"}) = {1}
  /\ Cardinality(Positions(s, {"E", "W"})) = 1
  /\ Positions(s, WhiteSpace) \cap {1, Len(s)} = {}

\* C16: a text without comma or semicolon that is a latitude section
\* starting with N or S followed by a longitude section starting with E or W
\* is split into these two sections, and with S it parses whenever it parses
\* with N in place of S, to the same longitude and the negated latitude.
C16_SplitAtHemisphereLetters ==
  (CoordReturned /\ HemisphereSections(input)) =>
    LET e == CHOOSE k \in Positions(input, {"E", "W"}) : TRUE
        parts == SplitParts(input)
        north == EnhancedCoordinateParser(<<"N">> \o Tail(input))
    IN /\ Len(parts) = 2
       /\ Strip(parts[1]) = Strip(SubSeq(input, 1, e - 1))
       /\ parts[2] = SubSeq(input, e, Len(input))
       /\ (input[1] = "S" /\ north.kind = "point") =>
            /\ result.kind = "point"
            /\ result.lon = north.lon
            /\ result.lat = RNeg(north.lat)


(***************************************************************************)
(* Properties of the pairs the gateway returns                             *)
(***************************************************************************)

ConverterReturned == pc = "done" /\ op \in {"hk_grid_to_lat_lon", "lat_lon_to_hk_grid"}

\* C18: a call of hk_grid_to_lat_lon or lat_lon_to_hk_grid returns a pair
\* (value, error) of which exactly one is not None, and when the response
\* carries an ErrorCode, whatever its ErrorMsg, the value is None and the
\* error a non-empty message.
C18_ValueOrError ==
  ConverterReturned =>
    /\ result.kind = "pair"
    /\ (result.value = <<>>) # (result.error = JNull)
    /\ (request # <<>> /\ response.data.t = "dict" /\ HasKey(response.data, "ErrorCode")) =>
         /\ result.value = <<>>
         /\ result.error \notin {JNull, ""}


(***************************************************************************)
(* Properties of concurrent calls                                          *)
(***************************************************************************)

Finished(t) == threads[t].pc = "done"
KeyOf(t) == CacheKey(threads[t].params)

\* C17: threads that fill the cache at the same time only repeat requests.
\* A thread that sent a request ends as a call on an empty cache given the
\* same reply ends; a thread that sent none returns a successful response
\* another thread got for the same key; whatever a thread is given answers
\* its own parameters; and the cache holds, under each key, a successful
\* response some thread got to a request for that key.
C17_BenignRace ==
  /\ \A t \in ThreadIds :
       Finished(t) =>
         /\ threads[t].exc = "none" => /\ threads[t].data.t = "dict"
                                       /\ threads[t].data.req = KeyOf(t)
         /\ threads[t].sent =>
              LET alone == CallApi(NoCache, threads[t].params, threads[t].reply)
              IN threads[t].exc = alone.exc /\ threads[t].data = alone.data
         /\ ~threads[t].sent =>
              /\ threads[t].exc = "none"
              /\ ~HasKey(threads[t].data, "ErrorCode")
              /\ \E u \in ThreadIds \ {t} :
                   /\ threads[u].sent
                   /\ KeyOf(u) = KeyOf(t)
                   /\ threads[u].data = threads[t].data
  /\ \A k \in DOMAIN cache :
       /\ cache[k].req = k
       /\ ~HasKey(cache[k], "ErrorCode")
       /\ \E u \in ThreadIds : threads[u].sent /\ KeyOf(u) = k /\ threads[u].data = cache[k]

\* two threads with the same parameters, in different orders, both sent a
\* request and were given different successful responses; the cache holds
\* one of them
C17_Witness ==
  \E t, u \in ThreadIds :
    /\ t # u
    /\ Finished(t) /\ Finished(u)
    /\ threads[t].params # threads[u].params
    /\ KeyOf(t) = KeyOf(u)
    /\ threads[t].sent /\ threads[u].sent
    /\ threads[t].exc = "none" /\ threads[u].exc = "none"
    /\ threads[t].data # threads[u].data
    /\ KeyOf(t) \in DOMAIN cache
    /\ cache[KeyOf(t)] = threads[u].data

====
